---- MODULE Spec2Model ----
(***************************************************************************)
(* A model of nuclideUri (the NuclideUri path/URI abstraction): local      *)
(* paths, remote nuclide://host/path locations and archive-member paths.   *)
(*                                                                         *)
(* A location is a TLA+ string.  Indices are 0-based wherever the source   *)
(* uses a JavaScript index; the helpers below give the JavaScript string   *)
(* methods their JavaScript meaning (clamping included).                   *)
(*                                                                         *)
(* Every operation of the module is a pure function of its arguments (the  *)
(* formatter registry apart), so an operation is an operator computing a   *)
(* result record [err, ok, val]: ok = FALSE and err the throw site when    *)
(* the operation throws.  The state machine calls one operation on inputs  *)
(* drawn from bounded sets and records the call and its result.            *)
(***************************************************************************)
EXTENDS Integers, Sequences, FiniteSets, TLC

VARIABLES
    pc,              \* "idle" between calls, "done" once a call has returned or thrown
    call,            \* the last call: the operation, its arguments and its result
    hostFormatters,  \* the module-level formatter registry (line 565)
    disposers,       \* the disposers registerHostnameFormatter has returned
    cwd              \* process.cwd(), which path.resolve and path.relative read

vars == <<pc, call, hostFormatters, disposers, cwd>>

\* the record of a call of operation o on arguments a that returned or threw r
CallOf(o, a, r) == [op |-> o, args |-> a, res |-> r]

\* the operation called last
op == call.op

\* its arguments, in order
args == call.args

\* its result record
res == call.res

(***************************************************************************)
(* The records of the model.                                               *)
(***************************************************************************)
\* the result of an operation: a returned value, or the site that threw
Ok(v) == [err |-> "none", ok |-> TRUE, val |-> v]
Throw(e) == [err |-> e, ok |-> FALSE, val |-> ""]

\* the {hostname, path} object parse returns
ParsedUrl(hostname, path) == [hostname |-> hostname, path |-> path]

\* what win32 path functions learn from the start of a path: the device, whether
\* the path is absolute, where its root ends, whether it is a bare UNC root
Root(device, absolute, rootEnd, uncOnly) ==
    [device |-> device, absolute |-> absolute, rootEnd |-> rootEnd,
     uncOnly |-> uncOnly]

(***************************************************************************)
(* Bounds of the model.                                                    *)
(***************************************************************************)
\* the number of pieces a generated codec input is concatenated from
MaxPieces == 4
\* the number of times the loop of split may run before the model gives up on it
MaxSplitSteps == 12
\* the number of characters appended to a stem to make a contains argument
MaxTail == 2
\* the length of a generated list of paths
MaxList == 2
\* the number of segments of a generated location
MaxSegs == 2
\* the number of segments of a generated archive member path
MaxMember == 2
\* registerHostnameFormatter calls in one run
MaxRegistrations == 3
\* invocations of one disposer
MaxDisposeCalls == 2

(***************************************************************************)
(* JavaScript string methods.                                              *)
(***************************************************************************)
Min(S) == CHOOSE x \in S : \A y \in S : x <= y
Max(S) == CHOOSE x \in S : \A y \in S : x >= y

\* const v = ...: the value of f at the one value it binds, which is computed
\* once and named in what follows
With(f) == f[CHOOSE v \in DOMAIN f : TRUE]

\* s.charAt(i): the empty string outside the string
CharAt(s, i) == IF i >= 0 /\ i < Len(s) THEN SubSeq(s, i + 1, i + 1) ELSE ""

\* s.slice(a, b) for 0 <= a, with b clamped to the length
Slice(s, a, b) ==
    LET e == IF b > Len(s) THEN Len(s) ELSE b
    IN  IF a >= e THEN "" ELSE SubSeq(s, a + 1, e)

\* s.substr(a) and s.slice(a)
SliceFrom(s, a) == Slice(s, a, Len(s))

\* s.startsWith(p)
StartsWith(s, p) == Len(p) <= Len(s) /\ Slice(s, 0, Len(p)) = p

\* s.endsWith(p)
EndsWith(s, p) == Len(p) <= Len(s) /\ Slice(s, Len(s) - Len(p), Len(s)) = p

\* s.indexOf(p, from): the search position is clamped into 0..s.length, and
\* the answer is -1 when p does not occur at or after it
IndexOf(s, p, from) ==
    LET f  == IF from < 0 THEN 0 ELSE IF from > Len(s) THEN Len(s) ELSE from
        ks == {k \in f..(Len(s) - Len(p)) : Slice(s, k, k + Len(p)) = p}
    IN  IF ks = {} THEN -1 ELSE Min(ks)

\* s.replace(pat, rep) with a string pattern: the first occurrence only
ReplaceFirst(s, pat, rep) ==
    LET k == IndexOf(s, pat, 0)
    IN  IF k < 0 THEN s
        ELSE Slice(s, 0, k) \o rep \o SliceFrom(s, k + Len(pat))

\* the number of occurrences of the one-character string c in s, so that
\* s.split(c).length is CountChar(s, c) + 1
CountChar(s, c) == Cardinality({k \in 0..(Len(s) - 1) : CharAt(s, k) = c})

(***************************************************************************)
(* Module constants and the two path dialects (pathModule.posix and        *)
(* pathModule.win32), named "posix" and "win32".                           *)
(***************************************************************************)
ARCHIVE_SEPARATOR == "!"
KNOWN_ARCHIVE_EXTENSIONS == <<".jar", ".zip">>
REMOTE_PATH_URI_PREFIX == "nuclide://"

PathModules == {"posix", "win32"}
Sep(pm) == IF pm = "win32" THEN "\\" ELSE "/"
Delimiter(pm) == IF pm = "win32" THEN ";" ELSE ":"


(***************************************************************************)
(* Classifier.                                                             *)
(***************************************************************************)
isRemote(uri) == StartsWith(uri, REMOTE_PATH_URI_PREFIX)
isAtomUri(uri) == StartsWith(uri, "atom://")

(***************************************************************************)
(* Archive separators.                                                     *)
(***************************************************************************)
\* the ext => ... callback of _isArchiveSeparator; extStart is negative when
\* index < ext.length, and indexOf then searches from 0
ExtEndsAt(path, index, ext) ==
    LET extStart == index - Len(ext)
    IN  IndexOf(path, ext, extStart) = extStart

_isArchiveSeparator(path, index) ==
    /\ Len(path) > index
    /\ CharAt(path, index) = ARCHIVE_SEPARATOR
    /\ \E e \in 1..Len(KNOWN_ARCHIVE_EXTENSIONS) :
           ExtEndsAt(path, index, KNOWN_ARCHIVE_EXTENSIONS[e])

_endsWithArchiveSeparator(path) == _isArchiveSeparator(path, Len(path) - 1)

_trimArchiveSuffix(path) ==
    IF _endsWithArchiveSeparator(path)
    THEN Slice(path, 0, Len(path) - Len(ARCHIVE_SEPARATOR))
    ELSE path

(***************************************************************************)
(* Archive codec.                                                          *)
(***************************************************************************)
\* KNOWN_ARCHIVE_EXTENSIONS.reduce((acc, ext) => acc.replace(ext + from, ext + to), uri)
RECURSIVE ReduceReplace(_, _, _, _)
ReduceReplace(acc, e, from, to) ==
    IF e > Len(KNOWN_ARCHIVE_EXTENSIONS) THEN acc
    ELSE ReduceReplace(
             ReplaceFirst(acc, KNOWN_ARCHIVE_EXTENSIONS[e] \o from,
                               KNOWN_ARCHIVE_EXTENSIONS[e] \o to),
             e + 1, from, to)

_archiveEncode(uriPathModule, uri) ==
    IF IndexOf(uri, ARCHIVE_SEPARATOR, 0) < 0 THEN uri
    ELSE ReduceReplace(uri, 1, ARCHIVE_SEPARATOR,
                       ARCHIVE_SEPARATOR \o Sep(uriPathModule))

_archiveDecodeJarOnly(uriPathModule, uri) ==
    IF IndexOf(uri, ARCHIVE_SEPARATOR, 0) < 0 THEN uri
    ELSE _trimArchiveSuffix(
             ReplaceFirst(uri, ".jar" \o ARCHIVE_SEPARATOR \o Sep(uriPathModule),
                               ".jar" \o ARCHIVE_SEPARATOR))

_archiveDecode(uriPathModule, uri) ==
    IF IndexOf(uri, ARCHIVE_SEPARATOR, 0) < 0 THEN uri
    ELSE _trimArchiveSuffix(
             ReduceReplace(uri, 1, ARCHIVE_SEPARATOR \o Sep(uriPathModule),
                           ARCHIVE_SEPARATOR))

(***************************************************************************)
(* Node's path module (import pathModule from 'path'), by the algorithms   *)
(* of lib/path.js.  A path is cut into segments at the dialect's           *)
(* separators; the segment ".." pops the segment before it.  The process's *)
(* working directory, process.cwd(), is the variable cwd.                  *)
(***************************************************************************)
PosixSeps == {"/"}
Win32Seps == {"/", "\\"}
SepsOf(pm) == IF pm = "win32" THEN Win32Seps ELSE PosixSeps

Letters == {"a", "b", "c", "d", "e", "f", "g", "h", "i", "j", "k", "l", "m",
            "n", "o", "p", "q", "r", "s", "t", "u", "v", "w", "x", "y", "z",
            "A", "B", "C", "D", "E", "F", "G", "H", "I", "J", "K", "L", "M",
            "N", "O", "P", "Q", "R", "S", "T", "U", "V", "W", "X", "Y", "Z"}

\* the first index >= from holding a character in (in = TRUE) or not in
\* (in = FALSE) the set cs; Len(s) when there is none
Scan(s, from, cs, in) ==
    LET ks == {k \in from..(Len(s) - 1) : (CharAt(s, k) \in cs) = in}
    IN  IF ks = {} THEN Len(s) ELSE Min(ks)

\* s.split at every character of seps
RECURSIVE SplitSeps(_, _)
SplitSeps(s, seps) ==
    LET k == Scan(s, 0, seps, TRUE)
    IN  IF k >= Len(s) THEN <<s>>
        ELSE <<Slice(s, 0, k)>> \o SplitSeps(SliceFrom(s, k + 1), seps)

\* segs.join(sep)
RECURSIVE JoinSegs(_, _)
JoinSegs(segs, sep) ==
    IF Len(segs) = 0 THEN ""
    ELSE IF Len(segs) = 1 THEN segs[1]
    ELSE segs[1] \o sep \o JoinSegs(Tail(segs), sep)

\* the segments normalizeString keeps: empty and "." segments dropped, ".."
\* popping the last kept segment unless that is "..", and kept itself only
\* when allowAboveRoot
RECURSIVE NormSegs(_, _, _)
NormSegs(segs, acc, allowAboveRoot) ==
    IF Len(segs) = 0 THEN acc
    ELSE LET g == Head(segs)
             n == Len(acc)
             acc2 ==
                 IF g = "" \/ g = "." THEN acc
                 ELSE IF g = ".."
                      THEN IF n > 0 /\ acc[n] # ".." THEN SubSeq(acc, 1, n - 1)
                           ELSE IF allowAboveRoot THEN Append(acc, "..")
                           ELSE acc
                 ELSE Append(acc, g)
         IN  NormSegs(Tail(segs), acc2, allowAboveRoot)

\* normalizeStringPosix / normalizeStringWin32
normalizeString(pm, path, allowAboveRoot) ==
    JoinSegs(NormSegs(SplitSeps(path, SepsOf(pm)), <<>>, allowAboveRoot), Sep(pm))

\* the arguments of join/resolve that are not empty
RECURSIVE NonEmpty(_)
NonEmpty(paths) ==
    IF Len(paths) = 0 THEN <<>>
    ELSE IF Head(paths) = "" THEN NonEmpty(Tail(paths))
    ELSE <<Head(paths)>> \o NonEmpty(Tail(paths))

(*------------------------------ posix ----------------------------------*)
posixIsAbsolute(path) == Len(path) > 0 /\ CharAt(path, 0) = "/"

posixNormalize(path) ==
    IF Len(path) = 0 THEN "."
    ELSE LET isAbsolute == CharAt(path, 0) = "/"
             trailingSeparator == CharAt(path, Len(path) - 1) = "/"
             n == normalizeString("posix", path, ~isAbsolute)
             p1 == IF Len(n) = 0 /\ ~isAbsolute THEN "." ELSE n
             p2 == IF Len(p1) > 0 /\ trailingSeparator THEN p1 \o "/" ELSE p1
         IN  IF isAbsolute THEN "/" \o p2 ELSE p2

posixJoin(paths) ==
    LET ne == NonEmpty(paths)
    IN  IF Len(ne) = 0 THEN "." ELSE posixNormalize(JoinSegs(ne, "/"))

\* posix.resolve of one path
posixResolve(path) ==
    LET p == IF posixIsAbsolute(path) THEN path
             ELSE IF path = "" THEN cwd
             ELSE cwd \o "/" \o path
        resolvedAbsolute == posixIsAbsolute(p)
        n == normalizeString("posix", p, ~resolvedAbsolute)
    IN  IF resolvedAbsolute THEN "/" \o n
        ELSE IF Len(n) > 0 THEN n ELSE "."

\* the length of the longest common prefix of two segment sequences
CommonPrefix(a, b) ==
    Max({k \in 0..Len(a) : k <= Len(b) /\ \A i \in 1..k : a[i] = b[i]})

\* k copies of ".."
DotDots(k) == [i \in 1..k |-> ".."]

posixRelative(from, to) ==
    IF from = to THEN ""
    ELSE LET f == posixResolve(from)
             t == posixResolve(to)
             fs == NormSegs(SplitSeps(f, PosixSeps), <<>>, TRUE)
             ts == NormSegs(SplitSeps(t, PosixSeps), <<>>, TRUE)
             c == CommonPrefix(fs, ts)
         IN  IF f = t THEN ""
             ELSE JoinSegs(DotDots(Len(fs) - c) \o SubSeq(ts, c + 1, Len(ts)), "/")

\* the index of the separator that ends the directory part: the last
\* separator at an index >= offset that has a non-separator after it; -1 if none
DirEnd(path, seps, offset) ==
    LET ks == {i \in offset..(Len(path) - 1) :
                  /\ CharAt(path, i) \in seps
                  /\ \E j \in (i + 1)..(Len(path) - 1) : CharAt(path, j) \notin seps}
    IN  IF ks = {} THEN -1 ELSE Max(ks)

posixDirname(path) ==
    IF Len(path) = 0 THEN "."
    ELSE LET hasRoot == CharAt(path, 0) = "/"
             end == DirEnd(path, PosixSeps, 1)
         IN  IF end = -1 THEN (IF hasRoot THEN "/" ELSE ".")
             ELSE IF hasRoot /\ end = 1 THEN "//"
             ELSE Slice(path, 0, end)

\* the last segment of path from index start on, trailing separators ignored:
\* [from |-> its first index, to |-> the index after its last]; to = -1 if none
LastPart(path, seps, start) ==
    LET nons == {i \in start..(Len(path) - 1) : CharAt(path, i) \notin seps}
    IN  IF nons = {} THEN [from |-> start, to |-> -1]
        ELSE LET last == Max(nons)
                 sl == {i \in start..last : CharAt(path, i) \in seps}
             IN  [from |-> IF sl = {} THEN start ELSE Max(sl) + 1, to |-> last + 1]

\* basename with an empty ext argument, from index start on
basenameFrom(path, seps, start) ==
    LET p == LastPart(path, seps, start)
    IN  IF p.to = -1 THEN "" ELSE Slice(path, p.from, p.to)

\* extname, from index start on
extnameFrom(path, seps, start) ==
    LET p == LastPart(path, seps, start)
        dots == {i \in p.from..(p.to - 1) : CharAt(path, i) = "."}
        startDot == IF dots = {} THEN -1 ELSE Max(dots)
    IN  IF p.to = -1 \/ startDot = -1 THEN ""
        ELSE IF startDot = p.from THEN ""
        ELSE IF /\ CharAt(path, p.from) = "."
                /\ startDot = p.to - 1
                /\ startDot = p.from + 1 THEN ""
        ELSE Slice(path, startDot, p.to)

posixBasename(path) == basenameFrom(path, PosixSeps, 0)
posixExtname(path) == extnameFrom(path, PosixSeps, 0)

(*------------------------------ win32 ----------------------------------*)
\* toLowerCase of one character, and of a string
LowerChar(c) ==
    LET up == <<"A", "B", "C", "D", "E", "F", "G", "H", "I", "J", "K", "L", "M",
                "N", "O", "P", "Q", "R", "S", "T", "U", "V", "W", "X", "Y", "Z">>
        lo == <<"a", "b", "c", "d", "e", "f", "g", "h", "i", "j", "k", "l", "m",
                "n", "o", "p", "q", "r", "s", "t", "u", "v", "w", "x", "y", "z">>
        ks == {k \in 1..26 : up[k] = c}
    IN  IF ks = {} THEN c ELSE lo[CHOOSE k \in ks : TRUE]

RECURSIVE ToLower(_)
ToLower(s) ==
    IF Len(s) = 0 THEN "" ELSE LowerChar(CharAt(s, 0)) \o ToLower(SliceFrom(s, 1))

\* The root every win32 function first matches: rootEnd, the device ("" when
\* none: a drive "C:" or a UNC root "\\server\share"), whether the path is
\* absolute, and whether the whole path is a UNC root and nothing else.
win32Root(path) ==
    LET len == Len(path)
        c0  == CharAt(path, 0)
        none == Root("", FALSE, 0, FALSE)
    IN  IF len = 0 THEN none
        ELSE IF c0 \in Win32Seps THEN
            IF len > 1 /\ CharAt(path, 1) \in Win32Seps THEN
                \* possible UNC root: server, separators, share
                LET j1 == Scan(path, 2, Win32Seps, TRUE)
                    j2 == Scan(path, j1, Win32Seps, FALSE)
                    j3 == Scan(path, j2, Win32Seps, TRUE)
                    unc == "\\\\" \o Slice(path, 2, j1) \o "\\" \o Slice(path, j2, j3)
                IN  IF j1 < len /\ j1 # 2 /\ j2 < len
                    THEN Root(unc, TRUE, j3, (j3 = len))
                    ELSE Root("", TRUE, 0, FALSE)
            ELSE Root("", TRUE, 1, FALSE)
        ELSE IF len > 1 /\ c0 \in Letters /\ CharAt(path, 1) = ":" THEN
            IF len > 2 /\ CharAt(path, 2) \in Win32Seps
            THEN Root(Slice(path, 0, 2), TRUE, 3, FALSE)
            ELSE Root(Slice(path, 0, 2), FALSE, 2, FALSE)
        ELSE none

win32IsAbsolute(path) == win32Root(path).absolute

win32Normalize(path) ==
    With([r \in {win32Root(path)} |->
    LET len == Len(path)
        trailingSeparator == CharAt(path, len - 1) \in Win32Seps
        t0 == IF r.rootEnd < len
              THEN normalizeString("win32", SliceFrom(path, r.rootEnd), ~r.absolute)
              ELSE ""
        t1 == IF Len(t0) = 0 /\ ~r.absolute THEN "." ELSE t0
        tail == IF Len(t1) > 0 /\ trailingSeparator THEN t1 \o "\\" ELSE t1
    IN  IF len = 0 THEN "."
        ELSE IF r.uncOnly THEN r.device \o "\\"
        ELSE IF r.absolute THEN r.device \o "\\" \o tail
        ELSE r.device \o tail])

win32Join(paths) ==
    LET ne == NonEmpty(paths)
        joined == JoinSegs(ne, "\\")
        firstPart == ne[1]
        \* the first part starts with exactly two separators and goes on: a UNC path
        isUnc == /\ Len(firstPart) > 2
                 /\ CharAt(firstPart, 0) \in Win32Seps
                 /\ CharAt(firstPart, 1) \in Win32Seps
                 /\ CharAt(firstPart, 2) \notin Win32Seps
        slashCount == Scan(joined, 0, Win32Seps, FALSE)
        fixed == IF ~isUnc /\ slashCount >= 2
                 THEN "\\" \o SliceFrom(joined, slashCount)
                 ELSE joined
    IN  IF Len(ne) = 0 THEN "." ELSE win32Normalize(fixed)

\* win32.resolve of one path; process.env['=C:'] is unset, so a drive-relative
\* path resolves against process.cwd() when that is on the drive and against
\* the drive's root otherwise
win32Resolve(path) ==
    With([r1 \in {win32Root(path)} |->
    LET tail1 == IF path = "" THEN "" ELSE SliceFrom(path, r1.rootEnd) \o "\\"
        done1 == r1.device # "" /\ r1.absolute
        base == IF r1.device = "" THEN cwd
                ELSE IF ToLower(Slice(cwd, 0, 3)) = ToLower(r1.device) \o "\\" THEN cwd
                ELSE r1.device \o "\\"
    IN
    With([r2 \in {win32Root(base)} |->
    LET skip2 == /\ r2.device # "" /\ r1.device # ""
                 /\ ToLower(r2.device) # ToLower(r1.device)
        use2 == ~done1 /\ ~skip2
        device == IF r1.device = "" /\ use2 THEN r2.device ELSE r1.device
        tail == IF use2 /\ ~r1.absolute
                THEN SliceFrom(base, r2.rootEnd) \o "\\" \o tail1
                ELSE tail1
        abs == IF use2 /\ ~r1.absolute THEN r2.absolute ELSE r1.absolute
        out == device \o (IF abs THEN "\\" ELSE "")
                      \o normalizeString("win32", tail, ~abs)
    IN  IF out = "" THEN "." ELSE out])])

\* win32.relative: the resolved paths are compared without case, segment by
\* segment from the device on; with no common first segment the answer is `to`
win32Relative(from, to) ==
    IF from = to THEN ""
    ELSE With([fromOrig \in {win32Resolve(from)} |->
         With([toOrig \in {win32Resolve(to)} |->
         LET fs == NormSegs(SplitSeps(ToLower(fromOrig), {"\\"}), <<>>, TRUE)
             ts == NormSegs(SplitSeps(ToLower(toOrig), {"\\"}), <<>>, TRUE)
             tso == NormSegs(SplitSeps(toOrig, {"\\"}), <<>>, TRUE)
             c == CommonPrefix(fs, ts)
         IN  IF fromOrig = toOrig \/ ToLower(fromOrig) = ToLower(toOrig) THEN ""
             ELSE IF c = 0 /\ Len(fs) > 0 /\ Len(ts) > 0 THEN toOrig
             ELSE JoinSegs(DotDots(Len(fs) - c) \o SubSeq(tso, c + 1, Len(tso)), "\\")])])

win32Dirname(path) ==
    With([r \in {win32Root(path)} |->
    LET len == Len(path)
        c0sep == CharAt(path, 0) \in Win32Seps
        rootEnd == IF len <= 1 THEN -1
                   ELSE IF c0sep
                        THEN (IF r.device # "" THEN r.rootEnd + 1 ELSE 1)
                   ELSE IF r.device # "" THEN r.rootEnd
                   ELSE -1
        offset == IF rootEnd = -1 THEN 0 ELSE rootEnd
        end == DirEnd(path, Win32Seps, offset)
    IN  IF len = 0 THEN "."
        ELSE IF len = 1 /\ c0sep THEN path
        ELSE IF r.uncOnly THEN path
        ELSE IF end = -1
             THEN (IF rootEnd = -1 THEN "." ELSE Slice(path, 0, rootEnd))
        ELSE Slice(path, 0, end)])

\* basename and extname skip a drive prefix
win32Start(path) ==
    IF Len(path) >= 2 /\ CharAt(path, 0) \in Letters /\ CharAt(path, 1) = ":"
    THEN 2 ELSE 0

win32Basename(path) == basenameFrom(path, Win32Seps, win32Start(path))
win32Extname(path) == extnameFrom(path, Win32Seps, win32Start(path))

(*------------------- the functions, by path module ----------------------*)
pmJoin(pm, paths) == IF pm = "win32" THEN win32Join(paths) ELSE posixJoin(paths)
pmNormalize(pm, path) ==
    IF pm = "win32" THEN win32Normalize(path) ELSE posixNormalize(path)
pmRelative(pm, from, to) ==
    IF pm = "win32" THEN win32Relative(from, to) ELSE posixRelative(from, to)
pmDirname(pm, path) == IF pm = "win32" THEN win32Dirname(path) ELSE posixDirname(path)
pmBasename(pm, path) ==
    IF pm = "win32" THEN win32Basename(path) ELSE posixBasename(path)
pmExtname(pm, path) == IF pm = "win32" THEN win32Extname(path) ELSE posixExtname(path)
pmIsAbsolute(pm, path) ==
    IF pm = "win32" THEN win32IsAbsolute(path) ELSE posixIsAbsolute(path)

(***************************************************************************)
(* Guards, dialect selection and the parser.                               *)
(***************************************************************************)
\* the throw site _testForIllegalUri reaches for uri, "none" if it returns
_testForIllegalUri(uri) ==
    IF isAtomUri(uri) THEN "atomUri"
    ELSE IF _endsWithArchiveSeparator(uri) THEN "endsWithArchiveSeparator"
    ELSE "none"

\* the dialect _pathModuleFor returns once its invariant has passed
pathModuleOf(uri) ==
    IF StartsWith(uri, "/") THEN "posix"
    ELSE IF IndexOf(uri, "://", 0) > -1 THEN "posix"
    ELSE IF CharAt(uri, 1) = ":" /\ CharAt(uri, 2) = "\\" THEN "win32"
    ELSE IF CountChar(uri, "\\") + 1 > CountChar(uri, "/") + 1 THEN "win32"
    ELSE "posix"

_pathModuleFor(uri) ==
    IF _endsWithArchiveSeparator(uri) THEN Throw("pathModuleFor")
    ELSE Ok(pathModuleOf(uri))

\* hostname: null is <<>>, a hostname h is <<h>>
Null == <<>>
Some(h) == <<h>>

\* parse with the path taken after the separator instead of from it
parseDropSep(uri) ==
    IF StartsWith(uri, REMOTE_PATH_URI_PREFIX) THEN
        LET hostAndPath == SliceFrom(uri, Len(REMOTE_PATH_URI_PREFIX))
            hostSep == IndexOf(hostAndPath, "/", 0)
        IN  IF hostSep = -1 THEN Throw("parse:noPath")
            ELSE Ok(ParsedUrl(Some(Slice(hostAndPath, 0, hostSep)),
                              SliceFrom(hostAndPath, hostSep + 1)))
    ELSE Ok(ParsedUrl(Null, uri))

parse(uri) ==
    IF StartsWith(uri, REMOTE_PATH_URI_PREFIX) THEN
        LET hostAndPath == SliceFrom(uri, Len(REMOTE_PATH_URI_PREFIX))
            hostSep == IndexOf(hostAndPath, "/", 0)
            hostname == Slice(hostAndPath, 0, hostSep)
            path == SliceFrom(hostAndPath, hostSep)
        IN  IF hostSep = -1 THEN Throw("parse:noPath")
            ELSE IF hostname = "" THEN Throw("parse:noHostname")
            ELSE IF _endsWithArchiveSeparator(uri) THEN Throw("parse:archiveSeparator")
            ELSE Ok(ParsedUrl(Some(hostname), path))
    ELSE IF IndexOf(uri, "://", 0) # -1 THEN Throw("parse:notLocal")
    ELSE IF _endsWithArchiveSeparator(uri) THEN Throw("parse:archiveSeparator")
    ELSE Ok(ParsedUrl(Null, uri))

parseRemoteUri(remoteUri) ==
    IF ~isRemote(remoteUri) THEN Throw("parseRemoteUri:notRemote")
    ELSE With([parsedUri \in {parse(remoteUri)} |->
             IF ~parsedUri.ok THEN parsedUri
             ELSE IF parsedUri.val.hostname = Null \/ parsedUri.val.hostname = Some("")
                  THEN Throw("parseRemoteUri:noHostname")
             ELSE Ok(ParsedUrl(parsedUri.val.hostname[1], parsedUri.val.path))])

getPath(uri) ==
    With([p \in {parse(uri)} |-> IF p.ok THEN Ok(p.val.path) ELSE p])

getHostname(remoteUri) ==
    With([p \in {parseRemoteUri(remoteUri)} |-> IF p.ok THEN Ok(p.val.hostname) ELSE p])

createRemoteUri(hostname, remotePath) ==
    IF remotePath = "" THEN Throw("createRemoteUri:noPath")
    ELSE Ok(REMOTE_PATH_URI_PREFIX \o hostname \o remotePath)

validate(uri, mustBeRemote) ==
    IF isRemote(uri) THEN
        LET p == parse(uri)
        IN  IF ~p.ok THEN p
            ELSE IF mustBeRemote = "false" THEN Throw("validate:mustBeRemoteFalse")
            ELSE Ok("undefined")
    ELSE IF uri = "" THEN Throw("validate:empty")
    ELSE IF mustBeRemote = "true" THEN Throw("validate:mustBeRemoteTrue")
    ELSE Ok("undefined")

(***************************************************************************)
(* Path operations.                                                        *)
(***************************************************************************)
\* _archiveEncodeArrayInPlace
EncodeAll(pm, array) == [i \in 1..Len(array) |-> _archiveEncode(pm, array[i])]

\* the value of f(s) once the guards of uri have passed
Guarded(uri, r) ==
    IF _testForIllegalUri(uri) # "none" THEN Throw(_testForIllegalUri(uri))
    ELSE IF ~_pathModuleFor(uri).ok THEN _pathModuleFor(uri)
    ELSE r

\* decode(createRemoteUri(...)) and createRemoteUri(decode(...))
DecodeOk(pm, r) == IF r.ok THEN Ok(_archiveDecode(pm, r.val)) ELSE r

join(uri, relativePath) ==
    LET pm == pathModuleOf(uri)
    IN  Guarded(uri,
          IF isRemote(uri) THEN
              LET p == parseRemoteUri(uri)
              IN  IF ~p.ok THEN p
                  ELSE DecodeOk(pm, createRemoteUri(p.val.hostname,
                           pmJoin(pm, EncodeAll(pm, <<p.val.path>> \o relativePath))))
          ELSE Ok(_archiveDecode(pm, pmJoin(pm, EncodeAll(pm, <<uri>> \o relativePath)))))

hasKnownArchiveExtension(uri) ==
    \E e \in 1..Len(KNOWN_ARCHIVE_EXTENSIONS) : EndsWith(uri, KNOWN_ARCHIVE_EXTENSIONS[e])

archiveJoin(uri, path) ==
    IF _testForIllegalUri(uri) # "none" THEN Throw(_testForIllegalUri(uri))
    ELSE IF ~hasKnownArchiveExtension(uri) THEN Throw("archiveJoin:nonArchive")
    ELSE Ok(uri \o ARCHIVE_SEPARATOR \o path)

normalize(uri) ==
    LET pm == pathModuleOf(uri)
    IN  Guarded(uri,
          IF isRemote(uri) THEN
              LET p == parseRemoteUri(uri)
              IN  IF ~p.ok THEN p
                  ELSE createRemoteUri(p.val.hostname,
                           _archiveDecode(pm, pmNormalize(pm, _archiveEncode(pm, p.val.path))))
          ELSE Ok(_archiveDecode(pm, pmNormalize(pm, _archiveEncode(pm, uri)))))

_matchTrailingArchive(uri, other) ==
    IF /\ Len(uri) < Len(other)
       /\ StartsWith(other, uri)
       /\ _isArchiveSeparator(other, Len(uri))
    THEN uri \o ARCHIVE_SEPARATOR
    ELSE uri

relativeSameHost(uri, other) ==
    LET pm == pathModuleOf(uri)
        remote == isRemote(uri)
    IN  Guarded(uri,
          IF remote /\ ~getHostname(uri).ok THEN getHostname(uri)
          ELSE IF remote /\ ~getPath(other).ok THEN getPath(other)
          ELSE LET uriEncode == _archiveEncode(pm, IF remote THEN getPath(uri).val ELSE uri)
                   otherEncode ==
                       _archiveEncode(pm, IF remote THEN getPath(other).val ELSE other)
               IN  Ok(_archiveDecode(pm,
                       pmRelative(pm, _matchTrailingArchive(uriEncode, otherEncode),
                                      _matchTrailingArchive(otherEncode, uriEncode)))))

relative(uri, other) ==
    LET pm == pathModuleOf(uri)
        remote == isRemote(uri)
    IN  Guarded(uri,
          IF remote # isRemote(other) THEN Throw("relative:differentHosts")
          ELSE IF remote /\ ~getHostname(uri).ok THEN getHostname(uri)
          ELSE IF remote /\ ~getHostname(other).ok THEN getHostname(other)
          ELSE IF remote /\ getHostname(uri).val # getHostname(other).val
               THEN Throw("relative:differentHosts")
          ELSE LET uriEncode == _archiveEncode(pm, IF remote THEN getPath(uri).val ELSE uri)
                   otherEncode ==
                       _archiveEncode(pm, IF remote THEN getPath(other).val ELSE other)
               IN  Ok(_archiveDecode(pm,
                       pmRelative(pm, _matchTrailingArchive(uriEncode, otherEncode),
                                      _matchTrailingArchive(otherEncode, uriEncode)))))

\* basename with the default ext = ''
basename(uri) ==
    LET pm == pathModuleOf(uri)
    IN  Guarded(uri,
          IF ~getPath(uri).ok THEN getPath(uri)
          ELSE Ok(_archiveDecode(pm,
                   pmBasename(pm, _archiveEncode(pm, getPath(uri).val)))))

dirname(uri) ==
    LET pm == pathModuleOf(uri)
    IN  Guarded(uri,
          IF isRemote(uri) THEN
              With([p \in {parseRemoteUri(uri)} |->
                  IF ~p.ok THEN p
                  ELSE createRemoteUri(p.val.hostname,
                           _archiveDecode(pm, pmDirname(pm, _archiveEncode(pm, p.val.path))))])
          ELSE Ok(_archiveDecode(pm, pmDirname(pm, _archiveEncode(pm, uri)))))

extname(uri) ==
    LET pm == pathModuleOf(uri)
    IN  Guarded(uri,
          IF ~getPath(uri).ok THEN getPath(uri)
          ELSE Ok(_archiveDecode(pm,
                   pmExtname(pm, _archiveEncode(pm, getPath(uri).val)))))

stripExtension(uri) ==
    IF _testForIllegalUri(uri) # "none" THEN Throw(_testForIllegalUri(uri))
    ELSE With([ext \in {extname(uri)} |->
             IF ~ext.ok THEN ext
             ELSE IF Len(ext.val) = 0 THEN Ok(uri)
             ELSE Ok(Slice(uri, 0, Len(uri) - Len(ext.val)))])

isRoot(uri) ==
    IF _testForIllegalUri(uri) # "none" THEN Throw(_testForIllegalUri(uri))
    ELSE With([d \in {dirname(uri)} |-> IF ~d.ok THEN d ELSE Ok(d.val = uri)])

ensureTrailingSeparator(uri) ==
    LET sep == Sep(pathModuleOf(uri))
    IN  Guarded(uri, IF EndsWith(uri, sep) THEN Ok(uri) ELSE Ok(uri \o sep))

\* the while loop of trimTrailingSeparator
RECURSIVE TrimLoop(_, _)
TrimLoop(stripped, sep) ==
    IF ~EndsWith(stripped, sep) THEN Ok(stripped)
    ELSE With([root \in {isRoot(stripped)} |->
             IF ~root.ok THEN root
             ELSE IF root.val THEN Ok(stripped)
             ELSE TrimLoop(Slice(stripped, 0, Len(stripped) - Len(sep)), sep)])

trimTrailingSeparator(uri) ==
    Guarded(uri, TrimLoop(uri, Sep(pathModuleOf(uri))))

endsWithSeparator(uri) ==
    Guarded(uri, Ok(EndsWith(uri, Sep(pathModuleOf(uri)))))

isAbsolute(uri) ==
    IF _testForIllegalUri(uri) # "none" THEN Throw(_testForIllegalUri(uri))
    ELSE IF isRemote(uri) THEN Ok(TRUE)
    ELSE IF ~_pathModuleFor(uri).ok THEN _pathModuleFor(uri)
    ELSE Ok(pmIsAbsolute(pathModuleOf(uri), uri))

\* os.platform(): the process runs on Windows when its working directory is
\* a drive path
platform == IF StartsWith(cwd, "/") THEN "linux" ELSE "win32"

\* HOME and UserProfile are process.env.HOME and process.env.UserProfile, Null
\* when unset.  pathModule.resolve(homePath, rel) with rel relative is the
\* resolve of homePath, the separator and rel (of rel alone for an empty
\* homePath); homePath is not a bare drive ('C:').
expandHomeDir(uri, HOME, UserProfile) ==
    LET isWindows == ~isRemote(uri) /\ platform = "win32"
        homePath == IF isWindows THEN UserProfile ELSE HOME
        rel == ReplaceFirst(uri, "~", ".")
    IN  IF _testForIllegalUri(uri) # "none" THEN Throw(_testForIllegalUri(uri))
        ELSE IF ~StartsWith(uri, "~") THEN Ok(uri)
        ELSE IF homePath = Null THEN Throw("expandHomeDir:noHomePath")
        ELSE IF uri = "~" THEN Ok(homePath[1])
        ELSE IF ~StartsWith(uri, "~/") /\ (~isWindows \/ ~StartsWith(uri, "~\\"))
             THEN Ok(uri)
        ELSE IF platform = "win32"
             THEN Ok(win32Resolve(IF homePath[1] = "" THEN rel
                                  ELSE homePath[1] \o "\\" \o rel))
        ELSE Ok(posixResolve(IF homePath[1] = "" THEN rel ELSE homePath[1] \o "/" \o rel))

(***************************************************************************)
(* Containment, collapse, path lists, split and display.                   *)
(***************************************************************************)
contains(parent, child) ==
    IF _testForIllegalUri(parent) # "none" THEN Throw(_testForIllegalUri(parent))
    ELSE IF _testForIllegalUri(child) # "none" THEN Throw(_testForIllegalUri(child))
    ELSE IF Len(child) < Len(parent) THEN
        IF Len(child) < Len(parent) - 1 THEN Ok(FALSE)
        ELSE IF ~StartsWith(parent, child) THEN Ok(FALSE)
        ELSE LET e == endsWithSeparator(parent)
             IN  IF ~e.ok THEN e
                 ELSE Ok(e.val \/ _isArchiveSeparator(child, Len(parent)))
    ELSE IF ~StartsWith(child, parent) THEN Ok(FALSE)
    ELSE LET e == endsWithSeparator(parent)
         IN  IF ~e.ok THEN e
             ELSE IF e.val \/ Len(parent) = Len(child) THEN Ok(TRUE)
             ELSE IF ~_pathModuleFor(child).ok THEN _pathModuleFor(child)
             ELSE Ok(\/ _isArchiveSeparator(child, Len(parent))
                     \/ StartsWith(SliceFrom(child, Len(parent)),
                                   Sep(pathModuleOf(child))))

\* paths.some(fp => contains(fp, p) && fp !== p), from index j on
RECURSIVE SomeContains(_, _, _)
SomeContains(paths, p, j) ==
    IF j > Len(paths) THEN Ok(FALSE)
    ELSE LET c == contains(paths[j], p)
         IN  IF ~c.ok THEN c
             ELSE IF c.val /\ paths[j] # p THEN Ok(TRUE)
             ELSE SomeContains(paths, p, j + 1)

\* paths.filter(p => !paths.some(...)), from index i on
RECURSIVE CollapseFrom(_, _)
CollapseFrom(paths, i) ==
    IF i > Len(paths) THEN Ok(<<>>)
    ELSE LET some == SomeContains(paths, paths[i], 1)
             rest == CollapseFrom(paths, i + 1)
         IN  IF ~some.ok THEN some
             ELSE IF ~rest.ok THEN rest
             ELSE IF some.val THEN rest
             ELSE Ok(<<paths[i]>> \o rest.val)

collapse(paths) == CollapseFrom(paths, 1)

\* paths.split(delimiter) for a one-character delimiter
splitPathList(paths) ==
    IF IndexOf(paths, REMOTE_PATH_URI_PREFIX, 0) >= 0 THEN Throw("splitPathList:remote")
    ELSE IF ~_pathModuleFor(paths).ok THEN _pathModuleFor(paths)
    ELSE Ok(SplitSeps(paths, {Delimiter(pathModuleOf(paths))}))

joinPathList(paths) ==
    IF Len(paths) = 0 THEN Ok("")
    ELSE IF \E i \in 1..Len(paths) : isRemote(paths[i]) THEN Throw("joinPathList:remote")
    ELSE IF ~_pathModuleFor(paths[1]).ok THEN _pathModuleFor(paths[1])
    ELSE Ok(JoinSegs(paths, Delimiter(pathModuleOf(paths[1]))))

\* the loop of split: parts are pushed leaf first; the loop has run n times
RECURSIVE SplitLoop(_, _, _, _)
SplitLoop(current, parent, parts, n) ==
    IF current = parent THEN Ok([parent |-> parent, parts |-> parts])
    ELSE IF n > MaxSplitSteps THEN Throw("split:stillLooping")
    ELSE With([b \in {basename(current)} |->
         With([d \in {dirname(parent)} |->
             IF ~b.ok THEN b
             ELSE IF ~d.ok THEN d
             ELSE SplitLoop(parent, d.val, <<b.val>> \o parts, n + 1)])])

split(uri) ==
    With([d \in {dirname(uri)} |->
        IF ~d.ok THEN d
        ELSE With([l \in {SplitLoop(uri, d.val, <<>>, 0)} |->
             With([a \in {isAbsolute(uri)} |->
                 IF ~l.ok THEN l
                 ELSE IF ~a.ok THEN a
                 ELSE IF a.val THEN Ok(<<l.val.parent>> \o l.val.parts)
                 ELSE Ok(l.val.parts)])])])

\* A registered formatter is named by what it does to a hostname: "null"
\* returns null for every hostname, "short" returns the hostname's first
\* character, "empty" returns the empty string.
Format(formatter, hostname) ==
    IF formatter = "short" THEN Some(Slice(hostname, 0, 1))
    ELSE IF formatter = "empty" THEN Some("")
    ELSE Null

\* for (const formatter of hostFormatters): the first truthy result
RECURSIVE FormatFrom(_, _, _)
FormatFrom(formatters, i, hostname) ==
    IF i > Len(formatters) THEN hostname
    ELSE LET f == Format(formatters[i], hostname)
         IN  IF f # Null /\ f # Some("") THEN f[1]
             ELSE FormatFrom(formatters, i + 1, hostname)

nuclideUriToDisplayString(uri) ==
    IF _testForIllegalUri(uri) # "none" THEN Throw(_testForIllegalUri(uri))
    ELSE IF isRemote(uri) THEN
        With([h \in {getHostname(uri)} |->
            IF ~h.ok THEN h
            ELSE Ok(FormatFrom(hostFormatters, 1, h.val) \o ":" \o getPath(uri).val)])
    ELSE Ok(uri)

(***************************************************************************)
(* The state machine: a caller calls an operation (pc "idle" -> "done")    *)
(* and takes its result (Return).                                          *)
(***************************************************************************)
\* the working directories the process may have been started in
Cwds == {"/w", "C:\\w"}

InitIdle ==
    /\ pc = "idle"
    /\ call = CallOf("none", <<>>, Ok(""))
    /\ hostFormatters = <<>>
    /\ disposers = <<>>
    /\ cwd \in Cwds

\* the caller takes the result; the next call may start
Return ==
    /\ pc = "done"
    /\ pc' = "idle"
    /\ call' = CallOf("none", <<>>, Ok(""))
    /\ UNCHANGED <<hostFormatters, disposers, cwd>>

\* the call of operation o on arguments a returns or throws r
Call(o, a, r) ==
    /\ pc' = "done"
    /\ call' = CallOf(o, a, r)
    /\ UNCHANGED <<hostFormatters, disposers, cwd>>

\* every concatenation of at most n strings of P
RECURSIVE Concats(_, _)
Concats(P, n) ==
    IF n = 0 THEN {""}
    ELSE LET S == Concats(P, n - 1)
         IN  S \cup {s \o p : s \in S, p \in P}

\* every sequence of at most n elements of S
RECURSIVE SeqsUpTo(_, _)
SeqsUpTo(S, n) ==
    IF n = 0 THEN {<<>>}
    ELSE LET T == SeqsUpTo(S, n - 1)
         IN  T \cup {Append(t, x) : t \in T, x \in S}

(***************************************************************************)
(* SpecCodec: the archive codec applied to generated strings.              *)
(***************************************************************************)
CodecPieces == {"a", ".zip", ".jar", "!", "/", "\\"}
CodecInputs == Concats(CodecPieces, MaxPieces)

CallEncode ==
    /\ pc = "idle"
    /\ \E pm \in PathModules, s \in CodecInputs \cup {"a.zip!b.zip!c", "a.zip!b.jar!c"} :
        Call("_archiveEncode", <<pm, s>>, Ok(_archiveEncode(pm, s)))

\* decode applied to an encoded string: args[2] is the string that was encoded
CallRoundTrip ==
    /\ pc = "idle"
    /\ \E pm \in PathModules, s \in CodecInputs :
        Call("roundTrip", <<pm, s>>, Ok(_archiveDecode(pm, _archiveEncode(pm, s))))

NextCodec == CallEncode \/ CallRoundTrip \/ Return

SpecCodec == InitIdle /\ [][NextCodec]_vars

(***************************************************************************)
(* SpecParse: the parser and the remote builder on generated strings       *)
(* REMOTE_PATH_URI_PREFIX + h + p.  args = <<the string, h, p>>.           *)
(***************************************************************************)
HostInputs == Concats({"h", ".zip", "!", "/"}, 2)
RemotePathInputs == Concats({"/", "a", ".zip", "!"}, MaxPieces)
\* strings that are not remote
OtherInputs ==
    {"", "/a", "a", "/a.zip!", "/ab!", "a!", "C:\\a.jar!b", "http://h/a", "atom://h/a",
     "nuclide:/h/a"}

CallParse ==
    /\ pc = "idle"
    /\ \/ \E h \in HostInputs, p \in RemotePathInputs :
            LET r == REMOTE_PATH_URI_PREFIX \o h \o p
            IN  Call("parse", <<r, h, p>>, parse(r))
       \/ \E s \in OtherInputs : Call("parse", <<s, "", s>>, parse(s))

CallParseRemoteUri ==
    /\ pc = "idle"
    /\ \/ \E h \in HostInputs, p \in RemotePathInputs :
            LET r == REMOTE_PATH_URI_PREFIX \o h \o p
            IN  Call("parseRemoteUri", <<r, h, p>>, parseRemoteUri(r))
       \/ \E s \in OtherInputs :
            Call("parseRemoteUri", <<s, "", s>>, parseRemoteUri(s))

\* createRemoteUri on what parseRemoteUri returned
CallRebuild ==
    /\ pc = "idle"
    /\ \E h \in HostInputs, p \in RemotePathInputs :
        LET r == REMOTE_PATH_URI_PREFIX \o h \o p
            parsed == parseRemoteUri(r)
        IN  Call("rebuild", <<r, h, p>>,
                 IF parsed.ok THEN createRemoteUri(parsed.val.hostname, parsed.val.path)
                 ELSE parsed)

CallCreateRemoteUri ==
    /\ pc = "idle"
    /\ \E h \in HostInputs, p \in RemotePathInputs :
        Call("createRemoteUri", <<h, p>>, createRemoteUri(h, p))

NextParse ==
    CallParse \/ CallParseRemoteUri \/ CallRebuild \/ CallCreateRemoteUri \/ Return

SpecParse == InitIdle /\ [][NextParse]_vars

(***************************************************************************)
(* SpecContains: contains on pairs of strings that share a stem, and       *)
(* collapse on short lists.                                                *)
(***************************************************************************)
ContainsStems == {"", "/", "/ab", "/www", "/a.zip", "/a.jar!b", "ab", "C:\\a",
                  "a\\b", "nuclide://h/a", "atom://a"}
ContainsTails == Concats({"/", "\\", "!", "b"}, MaxTail)

\* pairs the source's comments and tests name
ContainsExtraPairs == {<<"/www", "/www-base">>, <<"/www/", "/www">>,
                       <<"/abc/", "/abc">>, <<"/a/b/c", "/a/">>}

CallContains ==
    /\ pc = "idle"
    /\ \/ \E stem \in ContainsStems, t1 \in ContainsTails, t2 \in ContainsTails :
            Call("contains", <<stem \o t1, stem \o t2>>,
                 contains(stem \o t1, stem \o t2))
       \/ \E s1 \in ContainsStems, s2 \in ContainsStems :
            Call("contains", <<s1, s2>>, contains(s1, s2))
       \/ \E pr \in ContainsExtraPairs :
            Call("contains", <<pr[1], pr[2]>>, contains(pr[1], pr[2]))

CollapsePaths == {"/a/b/c", "/a/", "/a", "/c/d/", "/c/d/e", "/ab", "/a.zip",
                  "/a.zip!b", "a\\", "a\\b", "nuclide://h/a", "nuclide://h/a/b",
                  "/a.zip!", "atom://a", "/ab!"}
CollapseExtraLists == {<<"/a/b/c", "/a/", "/c/d/", "/c/d/e">>,
                       <<"/c/d/e", "/a/b/c", "/a/", "/c/d/", "/a/">>}

CallCollapse ==
    /\ pc = "idle"
    /\ \E paths \in SeqsUpTo(CollapsePaths, MaxList) \cup CollapseExtraLists :
            Call("collapse", <<paths>>, collapse(paths))

NextContains == CallContains \/ CallCollapse \/ Return

SpecContains == InitIdle /\ [][NextContains]_vars

(***************************************************************************)
(* SpecOps: every operation on generated locations.  A location is a root  *)
(* followed by at most MaxSegs segments joined by the root's separator,    *)
(* with or without a trailing separator.                                   *)
(***************************************************************************)
OpsRoots == {"", "/", "C:\\", "nuclide://h/", "nuclide://h.zip!/", "atom://"}
OpsSegments == {"a", "..", ".", "a.zip", "a.zip!", "a.zip!b", "ab!", ".\\b"}
RootSep(root) == IF root = "C:\\" THEN "\\" ELSE "/"

\* the locations under one root
LocationsUnder(root) ==
    {root} \cup {root \o JoinSegs(segs, RootSep(root)) \o t :
                    segs \in SeqsUpTo(OpsSegments, MaxSegs) \ {<<>>},
                    t \in {"", RootSep(root)}}

Locations == UNION {LocationsUnder(root) : root \in OpsRoots}

\* second arguments
JoinArgs == {<<"x">>, <<"..">>, <<"">>, <<"a.zip!">>, <<"x", "a.zip!b">>}
MemberPaths == {"", "b", "b/c"}
OtherLocations == {"/", "/a", "/a.zip!b", "a", "C:\\a", "nuclide://h/a",
                   "nuclide://g/a", "atom://a"}
PathLists == SeqsUpTo({"/a", "a\\b", "atom://a", "nuclide://h/a"}, MaxList)

OpNormalize ==
    /\ pc = "idle"
    /\ \E uri \in Locations : Call("normalize", <<uri>>, normalize(uri))

OpDirname ==
    /\ pc = "idle"
    /\ \E uri \in Locations : Call("dirname", <<uri>>, dirname(uri))

OpBasename ==
    /\ pc = "idle"
    /\ \E uri \in Locations : Call("basename", <<uri>>, basename(uri))

OpStripExtension ==
    /\ pc = "idle"
    /\ \E uri \in Locations : Call("stripExtension", <<uri>>, stripExtension(uri))

OpEnsureTrailingSeparator ==
    /\ pc = "idle"
    /\ \E uri \in Locations :
        Call("ensureTrailingSeparator", <<uri>>, ensureTrailingSeparator(uri))

OpTrimTrailingSeparator ==
    /\ pc = "idle"
    /\ \E uri \in Locations \cup {"/a//", "a\\\\", "//", "C:\\\\", "nuclide://h//",
                                  "nuclide://h", "nuclide://"} :
        Call("trimTrailingSeparator", <<uri>>, trimTrailingSeparator(uri))

OpJoin ==
    /\ pc = "idle"
    /\ \E uri \in Locations, relativePath \in JoinArgs :
        Call("join", <<uri, relativePath>>, join(uri, relativePath))

OpArchiveJoin ==
    /\ pc = "idle"
    /\ \E uri \in Locations, path \in MemberPaths :
        Call("archiveJoin", <<uri, path>>, archiveJoin(uri, path))

OpRelative ==
    /\ pc = "idle"
    /\ \E uri \in Locations : \E other \in OtherLocations \cup {uri} :
        Call("relative", <<uri, other>>, relative(uri, other))

OpParse ==
    /\ pc = "idle"
    /\ \E uri \in Locations : Call("parse", <<uri>>, parse(uri))

OpValidate ==
    /\ pc = "idle"
    /\ \E uri \in Locations, mustBeRemote \in {"true", "false", "undefined"} :
        Call("validate", <<uri, mustBeRemote>>, validate(uri, mustBeRemote))

OpSplit ==
    /\ pc = "idle"
    /\ \E uri \in Locations \cup {"/a/b/c"} : Call("split", <<uri>>, split(uri))

OpSplitPathList ==
    /\ pc = "idle"
    /\ \E paths \in Locations : Call("splitPathList", <<paths>>, splitPathList(paths))

OpJoinPathList ==
    /\ pc = "idle"
    /\ \E paths \in PathLists : Call("joinPathList", <<paths>>, joinPathList(paths))

OpContains ==
    /\ pc = "idle"
    /\ \E parent \in Locations : \E child \in OtherLocations \cup {parent} :
        Call("contains", <<parent, child>>, contains(parent, child))

OpCollapse ==
    /\ pc = "idle"
    /\ \E paths \in PathLists : Call("collapse", <<paths>>, collapse(paths))

OpDisplayString ==
    /\ pc = "idle"
    /\ \E uri \in Locations :
        Call("nuclideUriToDisplayString", <<uri>>, nuclideUriToDisplayString(uri))

OpExpandHomeDir ==
    /\ pc = "idle"
    /\ \E uri \in {"~", "~/a", "~\\a", "~abc", "~a.zip!b", "", "a", "/a", "/ab!",
                    "C:\\a", "nuclide://h/~", "atom://~"},
          HOME \in {Null, Some("/home/u"), Some("")},
          UserProfile \in {Null, Some("C:\\Users\\u")} :
        Call("expandHomeDir", <<uri, HOME, UserProfile>>,
             expandHomeDir(uri, HOME, UserProfile))

Op_pathModuleFor ==
    /\ pc = "idle"
    /\ \E uri \in {"", "a", "/a", "/a\\b\\c", "a\\b://c", "nuclide://h/a\\b\\c", "C:\\a/b/c/d",
                    "C:/a\\b", "a\\b", "a/b", "a\\b/c", "a\\b\\c/d", "a/b/c\\d", "/a.zip!",
                    "a.jar!", "a\\b.zip!", "a.zip!b", "/ab!", "a\\b!", "a!b"} :
        Call("_pathModuleFor", <<uri>>, _pathModuleFor(uri))

NextOps ==
    \/ OpNormalize \/ OpDirname \/ OpBasename \/ OpStripExtension
    \/ OpEnsureTrailingSeparator \/ OpTrimTrailingSeparator
    \/ OpJoin \/ OpArchiveJoin \/ OpRelative
    \/ OpParse \/ OpValidate \/ OpSplit \/ OpSplitPathList \/ OpJoinPathList
    \/ OpContains \/ OpCollapse \/ OpDisplayString \/ OpExpandHomeDir
    \/ Op_pathModuleFor
    \/ Return

SpecOps == InitIdle /\ [][NextOps]_vars

(***************************************************************************)
(* SpecRelative: relative on pairs of locations: two bases, or a base and  *)
(* a member path under it (joined with the archive separator or with the   *)
(* base's separator).                                                      *)
(***************************************************************************)
RelativeBases == {"/a.zip", "/d/a.jar", "/p.zip!q.zip", "/p.jar!q.zip", "a.zip",
                  "/d", "d\\e", "C:\\a.zip", "nuclide://h/a.zip",
                  "nuclide://h/p.zip!q.zip", "nuclide://g/a.zip", "nuclide://h",
                  "nuclide:///a", "atom://a.zip", "/a.zip!"}
MemberSegments == {"x", "y"}

\* the member paths for a base: plain segments joined by the base's separator
MemberSegs == SeqsUpTo(MemberSegments, MaxMember) \ {<<>>}
MemberSep(base) == IF StartsWith(base, "C:\\") \/ base = "d\\e" THEN "\\" ELSE "/"
Members(base) == {JoinSegs(segs, MemberSep(base)) : segs \in MemberSegs}

CallRelative ==
    /\ pc = "idle"
    /\ \/ \E uri \in RelativeBases, other \in RelativeBases :
            Call("relative", <<uri, other>>, relative(uri, other))
       \/ \E base \in RelativeBases : \E m \in Members(base) :
          \E j \in {ARCHIVE_SEPARATOR, MemberSep(base)} :
            \/ Call("relative", <<base, base \o j \o m>>,
                    relative(base, base \o j \o m))
            \/ Call("relative", <<base \o j \o m, base>>,
                    relative(base \o j \o m, base))

NextRelative == CallRelative \/ Return

SpecRelative == InitIdle /\ [][NextRelative]_vars

(***************************************************************************)
(* SpecRegistry: formatters are registered, disposers are invoked (any     *)
(* disposer, any number of times), and nuclideUriToDisplayString is called *)
(* under the registry that results.  A disposer is the closure over the    *)
(* formatter it was returned for; invoked counts its invocations.          *)
(***************************************************************************)
registerHostnameFormatter ==
    /\ pc = "idle"
    /\ Len(disposers) < MaxRegistrations
    /\ \E formatter \in {"null", "short", "empty"} :
        /\ hostFormatters' = Append(hostFormatters, formatter)
        /\ disposers' = Append(disposers, [formatter |-> formatter, invoked |-> 0])
        /\ pc' = "done"
        /\ call' = CallOf("registerHostnameFormatter", <<formatter>>,
                          Ok(Len(disposers) + 1))
    /\ UNCHANGED cwd

\* dispose: the first entry equal to the disposer's formatter is spliced out
dispose ==
    /\ pc = "idle"
    /\ \E d \in DOMAIN disposers :
        LET found == {i \in DOMAIN hostFormatters :
                        hostFormatters[i] = disposers[d].formatter}
            index == IF found = {} THEN -1 ELSE Min(found) - 1
        IN  /\ disposers[d].invoked < MaxDisposeCalls
            /\ hostFormatters' =
                 IF index >= 0
                 THEN SubSeq(hostFormatters, 1, index)
                          \o SubSeq(hostFormatters, index + 2, Len(hostFormatters))
                 ELSE hostFormatters
            /\ disposers' = [disposers EXCEPT ![d].invoked = @ + 1]
            /\ pc' = "done"
            /\ call' = CallOf("dispose", <<d>>, Ok("undefined"))
    /\ UNCHANGED cwd

CallDisplayString ==
    /\ pc = "idle"
    /\ \E uri \in {"/a", "/ab!", "a.zip!b", "C:\\a", "nuclide://host/a",
                    "nuclide://h/a.zip!b", "nuclide://h", "atom://a"} :
        Call("nuclideUriToDisplayString", <<uri>>, nuclideUriToDisplayString(uri))

NextRegistry == registerHostnameFormatter \/ dispose \/ CallDisplayString \/ Return

SpecRegistry == InitIdle /\ [][NextRegistry]_vars

(***************************************************************************)
(* Notions the claims are stated in.                                       *)
(***************************************************************************)
\* the character at index i is '!' directly preceded by '.zip' or '.jar'
ArchSepAt(s, i) ==
    /\ CharAt(s, i) = "!"
    /\ i >= 4
    /\ Slice(s, i - 4, i) \in {".zip", ".jar"}

EndsWithArchSep(s) == Len(s) > 0 /\ ArchSepAt(s, Len(s) - 1)

\* s is a value the operations are to accept: no internal-scheme URI, and no
\* archive separator at its end
WellFormed(s) == ~isAtomUri(s) /\ ~EndsWithArchSep(s)

\* every '!' of s comes immediately after a recognized extension
OnlyArchiveBangs(s) ==
    \A i \in 0..(Len(s) - 1) : CharAt(s, i) = "!" => ArchSepAt(s, i)

(***************************************************************************)
(* C1 (as stated): when every input is well formed (does not end with a    *)
(* '!' directly preceded by '.zip' or '.jar'), a string-returning          *)
(* operation fails or returns a string that does not end with such an      *)
(* archive separator.                                                      *)
(***************************************************************************)
C1_Ops == {"join", "archiveJoin", "normalize", "dirname", "basename", "relative",
           "stripExtension", "ensureTrailingSeparator", "trimTrailingSeparator"}

\* the string arguments of a call of one of C1_Ops
C1_Inputs ==
    IF op = "join" THEN {args[1]} \cup {args[2][i] : i \in 1..Len(args[2])}
    ELSE {args[i] : i \in 1..Len(args)}

C1_NoTrailingArchiveSeparator ==
    (pc = "done" /\ op \in C1_Ops /\ res.ok
        /\ \A s \in C1_Inputs : ~EndsWithArchSep(s))
        => ~EndsWithArchSep(res.val)

\* trimTrailingSeparator strips the separator that followed an archive separator
C1_Witness ==
    /\ pc = "done" /\ op = "trimTrailingSeparator"
    /\ args = <<"/a.zip!/">>
    /\ res = Ok("/a.zip!")

(***************************************************************************)
(* C2 (as stated): an operation that receives a string starting with       *)
(* 'atom://' in one of its location arguments fails.                       *)
(***************************************************************************)
C2_Ops == {"parse", "validate", "join", "normalize", "relative", "dirname",
           "basename", "split", "splitPathList", "joinPathList", "contains",
           "collapse", "nuclideUriToDisplayString"}

\* the location arguments of a call of one of C2_Ops
C2_Locations ==
    IF op \in {"joinPathList", "collapse"} THEN {args[1][i] : i \in 1..Len(args[1])}
    ELSE IF op \in {"relative", "contains"} THEN {args[1], args[2]}
    ELSE {args[1]}

C2_AtomUriFails ==
    (pc = "done" /\ op \in C2_Ops /\ \E s \in C2_Locations : isAtomUri(s))
        => ~res.ok

\* validate returns on an internal-scheme URI
C2_Witness ==
    /\ pc = "done" /\ op = "validate"
    /\ args = <<"atom://a", "undefined">>
    /\ res.ok

(***************************************************************************)
(* C3 (as stated): for either dialect and every string s whose '!' all     *)
(* come immediately after '.zip' or '.jar', decoding the encoded string    *)
(* gives s back.                                                           *)
(***************************************************************************)
C3_RoundTripAsStated ==
    (pc = "done" /\ op = "roundTrip" /\ OnlyArchiveBangs(args[2]))
        => res.val = args[2]

(***************************************************************************)
(* C3 (amended): for either dialect and every string s whose '!' all come  *)
(* immediately after '.zip' or '.jar' and which does not end with such an  *)
(* archive separator, decoding the encoded string gives s back.            *)
(***************************************************************************)
C3_RoundTrip ==
    (pc = "done" /\ op = "roundTrip" /\ OnlyArchiveBangs(args[2])
        /\ ~EndsWithArchSep(args[2]))
        => res.val = args[2]

\* a round trip over an archive member path, which encode did change
C3_Witness ==
    /\ pc = "done" /\ op = "roundTrip"
    /\ args[2] = "a.zip!a"
    /\ res.val = args[2]
    /\ _archiveEncode(args[1], args[2]) # args[2]

(***************************************************************************)
(* C4: for r = 'nuclide://' + h + p with h non-empty and free of '/', and  *)
(* p starting with '/' and not ending with an archive separator,           *)
(* parseRemoteUri(r) returns {hostname: h, path: p}, and createRemoteUri   *)
(* on that hostname and path returns r.                                    *)
(***************************************************************************)
WellFormedRemoteParts(h, p) ==
    /\ h # ""
    /\ IndexOf(h, "/", 0) = -1
    /\ StartsWith(p, "/")
    /\ ~EndsWithArchSep(p)

C4_ParseBuildRoundTrip ==
    (pc = "done" /\ op \in {"parseRemoteUri", "rebuild"}
        /\ WellFormedRemoteParts(args[2], args[3]))
        => IF op = "parseRemoteUri"
           THEN res = Ok(ParsedUrl(args[2], args[3]))
           ELSE res = Ok(args[1])

\* the rebuilt URI of a remote archive-member path whose hostname has a dot
C4_Witness ==
    /\ pc = "done" /\ op = "rebuild"
    /\ args = <<"nuclide://h.zip/.zip!a", "h.zip", "/.zip!a">>
    /\ res = Ok(args[1])

(***************************************************************************)
(* C5 (as stated): when child is at least as long as parent, contains is   *)
(* true iff child starts with parent and the lengths are equal, or parent  *)
(* ends with its dialect's separator, or the character of child at index   *)
(* parent.length is child's dialect separator or an archive separator (a   *)
(* '!' directly preceded by '.zip' or '.jar').                             *)
(***************************************************************************)
C5_Expected(parent, child) ==
    /\ StartsWith(child, parent)
    /\ \/ Len(parent) = Len(child)
       \/ EndsWith(parent, Sep(pathModuleOf(parent)))
       \/ CharAt(child, Len(parent)) = Sep(pathModuleOf(child))
       \/ ArchSepAt(child, Len(parent))

C5_NoSiblingCollision ==
    (pc = "done" /\ op = "contains" /\ res.ok /\ Len(args[2]) >= Len(args[1]))
        => (res.val <=> C5_Expected(args[1], args[2]))

\* a sibling whose name continues with '!' at index 3 is taken for a member
C5_Witness ==
    /\ pc = "done" /\ op = "contains"
    /\ args = <<"/ab", "/ab!b">>
    /\ res = Ok(TRUE)

(***************************************************************************)
(* C6 (as stated): for well-formed parent and child with child shorter     *)
(* than parent, contains(parent, child) is true iff parent is child        *)
(* followed by exactly one separator of parent's dialect, and is false for *)
(* every other length deficit.                                             *)
(***************************************************************************)
C6_ShorterChild ==
    (pc = "done" /\ op = "contains"
        /\ WellFormed(args[1]) /\ WellFormed(args[2])
        /\ Len(args[2]) < Len(args[1]))
        => res = Ok(args[1] = args[2] \o Sep(pathModuleOf(args[1])))

\* contains throws on a child whose '!' at index 3 follows no archive extension
C6_Witness ==
    /\ pc = "done" /\ op = "contains"
    /\ args = <<"/ab!/", "/ab!">>
    /\ res = Throw("endsWithArchiveSeparator")

(***************************************************************************)
(* C7 (as stated): for every well-formed location p, contains(p, p) is     *)
(* true and contains(p, join(p, 'x')) is true.                             *)
(***************************************************************************)
\* a local path, or nuclide://hostname followed by an absolute path; never
\* ending with an archive separator
C7_WellFormed(p) ==
    /\ p # ""
    /\ ~EndsWithArchSep(p)
    /\ IF isRemote(p)
       THEN LET hostAndPath == SliceFrom(p, Len(REMOTE_PATH_URI_PREFIX))
            IN  IndexOf(hostAndPath, "/", 0) > 0
       ELSE IndexOf(p, "://", 0) = -1

C7_ContainsSelfAndJoined ==
    (pc = "done" /\ C7_WellFormed(args[1]))
        => /\ (op = "contains" /\ args[2] = args[1]) => res = Ok(TRUE)
           /\ (op = "join" /\ args[2] = <<"x">>)
                => (res.ok /\ contains(args[1], res.val) = Ok(TRUE))

\* join normalizes '.' away, and contains compares the strings as they are
C7_Witness ==
    /\ pc = "done" /\ op = "join"
    /\ args = <<".", <<"x">>>>
    /\ res = Ok("x")
    /\ contains(".", "x") = Ok(FALSE)

(***************************************************************************)
(* C8 (as stated): for a list of well-formed locations, collapse returns,  *)
(* in input order, exactly the elements p of the list for which no element *)
(* fp with fp # p has contains(fp, p).                                     *)
(***************************************************************************)
C8_Kept(paths, p) ==
    ~\E j \in 1..Len(paths) : paths[j] # p /\ contains(paths[j], p) = Ok(TRUE)

C8_Collapse ==
    (pc = "done" /\ op = "collapse"
        /\ \A i \in 1..Len(args[1]) : WellFormed(args[1][i]))
        => res = Ok(SelectSeq(args[1], LAMBDA p : C8_Kept(args[1], p)))

\* collapse throws on a one-element list
C8_Witness ==
    /\ pc = "done" /\ op = "collapse"
    /\ args = <<<<"/ab!">>>>
    /\ res = Throw("endsWithArchiveSeparator")

(***************************************************************************)
(* C9 (as stated): for an archive file path a (ending in '.zip' or '.jar') *)
(* and a member path m of k plain segments, relative(a, archiveJoin(a, m)) *)
(* is m and relative(archiveJoin(a, m), a) is k '..' segments joined by    *)
(* the dialect separator.                                                  *)
(***************************************************************************)
\* a is an archive file path that the operations accept
C9_ArchiveFile(a) ==
    /\ hasKnownArchiveExtension(a)
    /\ ~isAtomUri(a)
    /\ parse(a).ok

C9_TrailingArchiveMatching ==
    (pc = "done" /\ op = "relative")
        => \A segs \in MemberSegs :
            LET a == IF Len(args[1]) < Len(args[2]) THEN args[1] ELSE args[2]
                sep == Sep(pathModuleOf(a))
                m == JoinSegs(segs, sep)
            IN  (C9_ArchiveFile(a) /\ archiveJoin(a, m).ok)
                => /\ (args = <<a, archiveJoin(a, m).val>>) => res = Ok(m)
                   /\ (args = <<archiveJoin(a, m).val, a>>)
                        => res = Ok(JoinSegs(DotDots(Len(segs)), sep))

\* a member of an archive nested in an archive of the same extension
C9_Witness ==
    /\ pc = "done" /\ op = "relative"
    /\ args = <<"/p.zip!q.zip", "/p.zip!q.zip!x">>
    /\ res = Ok("../q.zip!x")

(***************************************************************************)
(* C10: relative(a, b) fails whenever exactly one of a, b is remote or     *)
(* both are remote with different hostnames; when both are local or both   *)
(* are remote with the same hostname it does not fail for that reason.     *)
(***************************************************************************)
\* the hostname of a remote string: what stands between the prefix and the
\* first '/' after it
C10_Hostname(s) ==
    LET hostAndPath == SliceFrom(s, Len(REMOTE_PATH_URI_PREFIX))
        hostSep == IndexOf(hostAndPath, "/", 0)
    IN  IF hostSep = -1 THEN hostAndPath ELSE Slice(hostAndPath, 0, hostSep)

C10_DifferentHosts(a, b) ==
    \/ isRemote(a) # isRemote(b)
    \/ isRemote(a) /\ isRemote(b) /\ C10_Hostname(a) # C10_Hostname(b)

C10_CrossHostFails ==
    (pc = "done" /\ op = "relative")
        => IF C10_DifferentHosts(args[1], args[2])
           THEN ~res.ok
           ELSE res.err # "relative:differentHosts"

\* two well-formed remote locations on different hosts: the cross-host error
C10_Witness ==
    /\ pc = "done" /\ op = "relative"
    /\ args = <<"nuclide://h/a.zip", "nuclide://g/a.zip">>
    /\ res = Throw("relative:differentHosts")

(***************************************************************************)
(* C11 (as stated): parse(s) on a remote s splits at the first '/' after   *)
(* 'nuclide://' and fails when there is no such '/' or the hostname before *)
(* it is empty; on any other s it fails when s contains '://' and          *)
(* otherwise returns {hostname: null, path: s}; in both branches it fails  *)
(* when s ends with an archive separator.  A successful parse of a remote  *)
(* s has a non-empty hostname and a path that starts with '/'.             *)
(***************************************************************************)
C11_Fails(s) ==
    \/ EndsWithArchSep(s)
    \/ IF isRemote(s)
       THEN IndexOf(SliceFrom(s, Len(REMOTE_PATH_URI_PREFIX)), "/", 0) \in {-1, 0}
       ELSE IndexOf(s, "://", 0) # -1

C11_Parsed(s) ==
    IF isRemote(s)
    THEN LET rest == SliceFrom(s, Len(REMOTE_PATH_URI_PREFIX))
             k == IndexOf(rest, "/", 0)
         IN  ParsedUrl(Some(Slice(rest, 0, k)), SliceFrom(rest, k))
    ELSE ParsedUrl(Null, s)

C11_Parse ==
    (pc = "done" /\ op = "parse")
        => /\ res.ok = ~C11_Fails(args[1])
           /\ res.ok => res.val = C11_Parsed(args[1])
           /\ (res.ok /\ isRemote(args[1]))
                => /\ res.val.hostname \notin {Null, Some("")}
                   /\ StartsWith(res.val.path, "/")

\* parse rejects a local path that has '!' at index 3 after no extension
C11_Witness ==
    /\ pc = "done" /\ op = "parse"
    /\ args[1] = "/ab!"
    /\ ~EndsWithArchSep(args[1])
    /\ ~res.ok

(***************************************************************************)
(* C12 (as stated): for a remote base r with hostname h, join(r, segments) *)
(* is 'nuclide://' + h + the archive-decoded POSIX join of r's path with   *)
(* the segments: a remote location whose parsed hostname is h, with the    *)
(* hostname part of the string left unchanged.                             *)
(***************************************************************************)
C12_Rest(r) == SliceFrom(r, Len(REMOTE_PATH_URI_PREFIX))
C12_Hostname(r) == Slice(C12_Rest(r), 0, IndexOf(C12_Rest(r), "/", 0))
C12_Path(r) == SliceFrom(C12_Rest(r), IndexOf(C12_Rest(r), "/", 0))

\* r is a remote location: it has a hostname and a path, and no archive
\* separator at its end
C12_RemoteBase(r) ==
    /\ isRemote(r)
    /\ IndexOf(C12_Rest(r), "/", 0) > 0
    /\ ~EndsWithArchSep(r)

\* archive decoding of a path: '!/' after an extension becomes '!', and an
\* archive separator left at the end is dropped
C12_Decode(path) ==
    LET d == ReduceReplace(path, 1, ARCHIVE_SEPARATOR \o "/", ARCHIVE_SEPARATOR)
    IN  IF EndsWithArchSep(d) THEN Slice(d, 0, Len(d) - 1) ELSE d

C12_JoinedPath(r, segments) ==
    C12_Decode(posixJoin(EncodeAll("posix", <<C12_Path(r)>> \o segments)))

C12_RemoteJoin ==
    (pc = "done" /\ op = "join" /\ C12_RemoteBase(args[1]))
        => /\ res = Ok(REMOTE_PATH_URI_PREFIX \o C12_Hostname(args[1])
                          \o C12_JoinedPath(args[1], args[2]))
           /\ parse(res.val).ok
           /\ parse(res.val).val.hostname = Some(C12_Hostname(args[1]))

\* join on a base whose hostname ends with '.zip!' returns a string with
\* another hostname part
C12_Witness ==
    /\ pc = "done" /\ op = "join"
    /\ args = <<"nuclide://h.zip!/a", <<"x">>>>
    /\ C12_RemoteBase(args[1])
    /\ res = Ok("nuclide://h.zip!a/x")

(***************************************************************************)
(* C13 (as stated): normalize is idempotent: for every well-formed local   *)
(* or remote location s, archive-member paths included,                    *)
(* normalize(normalize(s)) = normalize(s).                                 *)
(***************************************************************************)
C13_NormalizeIdempotent ==
    (pc = "done" /\ op = "normalize" /\ WellFormed(args[1]) /\ res.ok)
        => normalize(res.val) = res

\* normalizing './.\b' gives '.\b', which the Windows dialect normalizes to 'b'
C13_Witness ==
    /\ pc = "done" /\ op = "normalize"
    /\ args[1] = "./.\\b" /\ WellFormed(args[1])
    /\ res = Ok(".\\b")
    /\ normalize(res.val) = Ok("b")

(***************************************************************************)
(* C14 (as stated): for every well-formed location s, applying dirname     *)
(* again and again reaches a value r with dirname(r) = r after finitely    *)
(* many steps, so split(s) returns: the basenames collected on the way, in *)
(* root-to-leaf order, preceded by r when s is absolute.  In particular    *)
(* dirname(dirname(dirname('/a/b/c'))) = '/', isRoot('/') = true.          *)
(***************************************************************************)
\* the basenames of s and of its dirnames, root first, over at most n steps
RECURSIVE C14_Basenames(_, _)
C14_Basenames(s, n) ==
    IF n = 0 \/ ~dirname(s).ok \/ ~basename(s).ok \/ dirname(s) = Ok(s) THEN <<>>
    ELSE C14_Basenames(dirname(s).val, n - 1) \o <<basename(s).val>>

C14_SplitTerminates ==
    (pc = "done" /\ op = "split" /\ WellFormed(args[1]))
        => /\ res.ok
           /\ isAbsolute(args[1]).ok
           /\ IF isAbsolute(args[1]).val
              THEN /\ Len(res.val) >= 1
                   /\ dirname(res.val[1]) = Ok(res.val[1])
                   /\ Tail(res.val) = C14_Basenames(args[1], MaxSplitSteps)
              ELSE res.val = C14_Basenames(args[1], MaxSplitSteps)
           /\ args[1] = "/a/b/c"
                => /\ res = Ok(<<"/", "a", "b", "c">>)
                   /\ dirname(dirname(dirname(args[1]).val).val) = Ok("/")
                   /\ isRoot("/") = Ok(TRUE)

\* split of a well-formed path with '!' at index 3 throws
C14_Witness ==
    /\ pc = "done" /\ op = "split"
    /\ args[1] = "/ab!" /\ WellFormed(args[1])
    /\ ~res.ok

(***************************************************************************)
(* C15 (as stated): after any sequence of registerHostnameFormatter calls  *)
(* and disposer invocations (the same formatter registered more than once  *)
(* and the same disposer invoked more than once included), the registry    *)
(* holds exactly one entry for each registration whose own disposer has    *)
(* not been invoked, in registration order.                                *)
(***************************************************************************)
\* the formatters of the registrations in ds whose disposer was not invoked
RECURSIVE C15_Live(_)
C15_Live(ds) ==
    IF ds = <<>> THEN <<>>
    ELSE (IF Head(ds).invoked = 0 THEN <<Head(ds).formatter>> ELSE <<>>)
             \o C15_Live(Tail(ds))

C15_RegistryMatchesRegistrations == hostFormatters = C15_Live(disposers)

\* one formatter registered twice, the first disposer invoked twice: the
\* second registration is gone although its disposer was never invoked
C15_Witness ==
    /\ Len(disposers) = 2
    /\ disposers[1] = [formatter |-> "short", invoked |-> 2]
    /\ disposers[2] = [formatter |-> "short", invoked |-> 0]
    /\ hostFormatters = <<>>

(***************************************************************************)
(* C16 (as stated): nuclideUriToDisplayString returns a local value        *)
(* unchanged; for a remote value it consults the registered formatters in  *)
(* registration order, takes the result of the first formatter that        *)
(* returns a non-null result, falls back to the raw hostname when all      *)
(* return null, and renders '<hostname>:<path>'.                           *)
(***************************************************************************)
\* the result of the first formatter from index i on that is not null
RECURSIVE C16_FirstNonNull(_, _, _)
C16_FirstNonNull(formatters, i, hostname) ==
    IF i > Len(formatters) THEN hostname
    ELSE IF Format(formatters[i], hostname) # Null THEN Format(formatters[i], hostname)[1]
    ELSE C16_FirstNonNull(formatters, i + 1, hostname)

C16_DisplayString ==
    (pc = "done" /\ op = "nuclideUriToDisplayString" /\ WellFormed(args[1]))
        => IF isRemote(args[1])
           THEN C12_RemoteBase(args[1])
                    => res = Ok(C16_FirstNonNull(hostFormatters, 1, C12_Hostname(args[1]))
                                    \o ":" \o C12_Path(args[1]))
           ELSE res = Ok(args[1])

\* a formatter that returns the empty string is passed over for the next one
C16_Witness ==
    /\ pc = "done" /\ op = "nuclideUriToDisplayString"
    /\ hostFormatters = <<"empty", "short">>
    /\ args[1] = "nuclide://host/a"
    /\ res = Ok("h:/a")

(***************************************************************************)
(* C17 (as stated): splitPathList and joinPathList are mutual inverses on  *)
(* local paths: for every list xs of local (non-remote) paths,             *)
(* splitPathList(joinPathList(xs)) = xs.                                   *)
(***************************************************************************)
C17_LocalPaths(xs) ==
    \A i \in 1..Len(xs) : ~isRemote(xs[i]) /\ WellFormed(xs[i])

C17_SplitInvertsJoin ==
    (pc = "done" /\ op = "joinPathList" /\ C17_LocalPaths(args[1]))
        => /\ res.ok
           /\ splitPathList(res.val) = Ok(args[1])

\* the empty list joins to '', which splits into the list of one ''
C17_Witness ==
    /\ pc = "done" /\ op = "joinPathList"
    /\ args[1] = <<>>
    /\ res = Ok("")
    /\ splitPathList(res.val) = Ok(<<"">>)

(***************************************************************************)
(* C18 (as stated): expandHomeDir('~') is the configured home directory; a *)
(* string that is neither '~' nor starts with '~' followed by a separator  *)
(* ('~abc', or any string not starting with '~') is returned unchanged in  *)
(* every environment; expandHomeDir fails only when expansion was          *)
(* requested ('~' or '~<sep>...') and the home variable is unset.          *)
(***************************************************************************)
\* the home variable of the platform, from the arguments <<uri, HOME, UserProfile>>
C18_Home(a) == IF platform = "win32" THEN a[3] ELSE a[2]

C18_Requested(uri) ==
    \/ uri = "~"
    \/ StartsWith(uri, "~/")
    \/ platform = "win32" /\ StartsWith(uri, "~\\")

C18_ExpandHomeDir ==
    (pc = "done" /\ op = "expandHomeDir" /\ WellFormed(args[1]))
        => /\ (args[1] = "~" /\ C18_Home(args) # Null) => res = Ok(C18_Home(args)[1])
           /\ ~C18_Requested(args[1]) => res = Ok(args[1])
           /\ ~res.ok => (C18_Requested(args[1]) /\ C18_Home(args) = Null)

\* '~abc' asks for no expansion, and the call fails for want of a home
C18_Witness ==
    /\ pc = "done" /\ op = "expandHomeDir"
    /\ args[1] = "~abc" /\ ~C18_Requested(args[1])
    /\ C18_Home(args) = Null
    /\ res = Throw("expandHomeDir:noHomePath")

(***************************************************************************)
(* C19 (as stated): trimTrailingSeparator never strips past a root: for    *)
(* every well-formed s the result is obtained from s by removing only      *)
(* trailing dialect separators, and the result either does not end with    *)
(* the dialect separator or satisfies isRoot; a root ('/', 'C:\\',         *)
(* 'nuclide://host/') is returned unchanged.                               *)
(***************************************************************************)
\* s is t followed by separators only
RECURSIVE C19_TrimmedFrom(_, _, _)
C19_TrimmedFrom(s, t, sep) ==
    \/ s = t
    \/ /\ Len(s) > Len(t)
       /\ EndsWith(s, sep)
       /\ C19_TrimmedFrom(Slice(s, 0, Len(s) - Len(sep)), t, sep)

\* a remote s is 'nuclide://', a non-empty hostname and an absolute path
C19_WellFormed(s) ==
    /\ WellFormed(s)
    /\ isRemote(s) => IndexOf(s, "/", Len(REMOTE_PATH_URI_PREFIX)) > Len(REMOTE_PATH_URI_PREFIX)

C19_NeverPastRoot ==
    (pc = "done" /\ op = "trimTrailingSeparator" /\ C19_WellFormed(args[1]))
        => /\ res.ok
           /\ C19_TrimmedFrom(args[1], res.val, Sep(pathModuleOf(args[1])))
           /\ \/ ~EndsWith(res.val, Sep(pathModuleOf(args[1])))
              \/ isRoot(res.val) = Ok(TRUE)
           /\ isRoot(args[1]) = Ok(TRUE) => res.val = args[1]

\* a well-formed string on which trimTrailingSeparator fails
C19_Witness ==
    /\ pc = "done" /\ op = "trimTrailingSeparator"
    /\ args[1] = "/ab!" /\ C19_WellFormed(args[1])
    /\ ~res.ok

(***************************************************************************)
(* C20 (as stated): _pathModuleFor follows four rules in priority order:   *)
(* POSIX if the string starts with '/'; else POSIX if it contains '://'    *)
(* anywhere; else Windows if index 1 is ':' and index 2 is '\\'; else      *)
(* Windows only if splitting on '\\' yields strictly more segments than    *)
(* splitting on '/', ties (strings with no separator included) going to    *)
(* POSIX; and it fails on any string ending with an archive separator.     *)
(***************************************************************************)
\* the number of segments of s split on the one-character separator c
C20_Segments(s, c) == Cardinality({i \in 1..Len(s) : SubSeq(s, i, i) = c}) + 1

C20_Dialect(s) ==
    CASE Len(s) >= 1 /\ SubSeq(s, 1, 1) = "/" -> "posix"
      [] \E i \in 1..(Len(s) - 2) : SubSeq(s, i, i + 2) = "://" -> "posix"
      [] Len(s) >= 3 /\ SubSeq(s, 2, 2) = ":" /\ SubSeq(s, 3, 3) = "\\" -> "win32"
      [] C20_Segments(s, "\\") > C20_Segments(s, "/") -> "win32"
      [] OTHER -> "posix"

C20_DialectSelection ==
    (pc = "done" /\ op = "_pathModuleFor")
        => IF EndsWithArchSep(args[1]) THEN ~res.ok
           ELSE res = Ok(C20_Dialect(args[1]))

\* a string that ends with no archive separator and starts with '/'
C20_Witness ==
    /\ pc = "done" /\ op = "_pathModuleFor"
    /\ args[1] = "/ab!" /\ ~EndsWithArchSep(args[1])
    /\ C20_Dialect(args[1]) = "posix"
    /\ ~res.ok

(***************************************************************************)
(* C21 (as stated): _archiveEncode inserts the dialect separator           *)
(* immediately after the archive separator for every occurrence of         *)
(* '<archive-ext>!' in s, several occurrences of the same extension        *)
(* included ('a.zip!b.zip!c'), and returns s when s contains no archive    *)
(* separator.                                                              *)
(***************************************************************************)
\* s from index i on, with sep after every '!' that follows an extension
RECURSIVE C21_EncodeFrom(_, _, _)
C21_EncodeFrom(s, sep, i) ==
    IF i >= Len(s) THEN ""
    ELSE CharAt(s, i) \o (IF ArchSepAt(s, i) THEN sep ELSE "")
                      \o C21_EncodeFrom(s, sep, i + 1)

C21_EncodeEvery ==
    (pc = "done" /\ op = "_archiveEncode")
        => /\ res.val = C21_EncodeFrom(args[2], Sep(args[1]), 0)
           /\ (\A i \in 0..(Len(args[2]) - 1) : ~ArchSepAt(args[2], i))
                  => res.val = args[2]

\* the nested archive: the second '.zip!' is left without a separator
C21_Witness ==
    /\ pc = "done" /\ op = "_archiveEncode"
    /\ args = <<"posix", "a.zip!b.zip!c">>
    /\ res.val = "a.zip!/b.zip!c"

(***************************************************************************)
(* C22 (as stated): collapse loses no coverage: for every list L of        *)
(* well-formed locations, every element of L is contained (per contains)   *)
(* by some element of collapse(L); in particular collapse of a non-empty   *)
(* list is non-empty, also when L holds the same directory both with and   *)
(* without a trailing separator ('/a' and '/a/').                          *)
(***************************************************************************)
C22_Covered(kept, p) ==
    \E j \in DOMAIN kept : contains(kept[j], p) = Ok(TRUE)

C22_NoCoverageLost ==
    (pc = "done" /\ op = "collapse"
        /\ \A i \in DOMAIN args[1] : WellFormed(args[1][i]))
        => /\ res.ok
           /\ \A i \in DOMAIN args[1] : C22_Covered(res.val, args[1][i])
           /\ args[1] # <<>> => res.val # <<>>

\* the same directory with and without its trailing separator: nothing is kept
C22_Witness ==
    /\ pc = "done" /\ op = "collapse"
    /\ args[1] = <<"/a", "/a/">>
    /\ res = Ok(<<>>)
====
